---------------------------- MODULE Spec2Model ----------------------------
(***************************************************************************)
(* A model of pyglmnet/datasets.py: the four dataset loaders with their    *)
(* on-disk cache, the missing-value cleaning of the community crime table, *)
(* the reading and labelling of the group lasso sequence files, and the    *)
(* interaction feature encoder of the group lasso loader.                  *)
(*                                                                         *)
(* Four specifications share the module, one per part of the program:      *)
(*   Spec         the cache directory and the four loaders' downloads      *)
(*   EncoderSpec  create_feature_vector_for_sequence, find_interaction_    *)
(*                index and create_group_indicies_list                     *)
(*   LassoSpec    the body of fetch_group_lasso_data after the download    *)
(*   CleanSpec    the body of fetch_community_crime_data after the download*)
(***************************************************************************)
EXTENDS Integers, Sequences, FiniteSets, TLC

VARIABLES
    \* ---- the cache directory and the last loader call
    data_home,      \* TRUE when the cache directory exists
    fs,             \* file name -> "absent" | "partial" | "full"
    loader,         \* the loader called last, "none" before the first call
    pre,            \* fs as it was when that call started
    dl,             \* file name -> number of urlretrieve calls in that call
    accept,         \* accept_rgcs_license of that call
    answer,         \* the local variable answer of fetch_rgc_spike_trains
    prompted,       \* TRUE when that call read from input()
    reads,          \* the files that call opened for reading
    result,         \* how that call ended
    \* ---- the feature encoder
    seq,            \* the sequence being encoded
    alphabet,       \* the alphabet parameter
    interactions,   \* the interactions parameter
    enc_pc,         \* "idle" | "call" | "loop" | "done" | "grouped" |
                    \* "ValueError" | "IndexError"
    inter_i,        \* position in interactions of the order treated next
    feature_vector, \* column (from 0) -> 0 | 1
    idxs,           \* per order treated, the list interaction_idxs
    grp_args,       \* the arguments of the last create_group_indicies_list
    index_groups,   \* its return value
    \* ---- the group lasso loader after the download
    pos_file,       \* the lines of the file pos
    neg_file,       \* the lines of the file neg
    lasso_pc,       \* position in the body of fetch_group_lasso_data
    positive_sequences,
    negative_sequences,
    matrix,         \* the rows of df without the Label column
    label,          \* the Label column of df, by row label
    lasso_out,      \* what fetch_group_lasso_data returns
    \* ---- the community crime loader after the download
    csv,            \* the cells of communities.csv as read
    df,             \* the data frame
    clean_pc,       \* position in the body of fetch_community_crime_data
    crime_out       \* what fetch_community_crime_data returns

cacheVars == <<data_home, fs, loader, pre, dl, accept, answer, prompted,
               reads, result>>
encVars == <<seq, alphabet, interactions, enc_pc, inter_i, feature_vector,
             idxs, grp_args, index_groups>>
lassoVars == <<pos_file, neg_file, lasso_pc, positive_sequences,
               negative_sequences, matrix, label, lasso_out>>
cleanVars == <<csv, df, clean_pc, crime_out>>
vars == <<cacheVars, encVars, lassoVars, cleanVars>>

-----------------------------------------------------------------------------
(* Small helpers on sequences.                                             *)

Range(s) == {s[i] : i \in 1..Len(s)}

\* list.index(x): the first position (from 0) holding x, -1 for ValueError.
ListIndex(s, x) ==
    IF \E i \in 1..Len(s) : s[i] = x
    THEN (CHOOSE i \in 1..Len(s) : s[i] = x /\ \A j \in 1..(i - 1) : s[j] # x) - 1
    ELSE -1

RECURSIVE SumSeq(_)
SumSeq(s) == IF s = <<>> THEN 0 ELSE Head(s) + SumSeq(Tail(s))

-----------------------------------------------------------------------------
(* The cache directory and the loaders' downloads.                         *)

TikhonovFiles == <<"fixations.csv", "probes.csv", "spiketimes.csv">>
CrimeFiles == <<"communities.csv">>
RgcFiles == <<"data_RGCs.json">>
LassoFiles == <<"pos", "neg">>

Files == Range(TikhonovFiles) \cup Range(CrimeFiles) \cup Range(RgcFiles)
           \cup Range(LassoFiles)

\* How one urlretrieve call can end: the whole file written; the connection
\* refused before the destination is opened; the transfer cut after the
\* destination was opened for writing.
Outcomes == {"ok", "noconn", "cut"}

\* What the prompt can return.
Answers == {"y", "Y", "n", "N", "yes", "YES", ""}

\* str.lower on the answers.
Lower(s) ==
    CASE s = "Y" -> "y"
      [] s = "N" -> "n"
      [] s = "YES" -> "yes"
      [] OTHER -> s

NoDownloads == [f \in Files |-> 0]

\* get_data_home: os.makedirs unless the directory exists; it exists afterwards.
GetDataHome(dir) == IF ~dir THEN TRUE ELSE dir

\* op.exists(op.join(dpath, fname))
ExistsComplete(state) == state = "full"
Exists(state) == state # "absent"

\* op.isdir(dpath) and all(op.exists(op.join(dpath, fname)) for fname in fnames)
IsCachedNever(dir, files, fnames) == FALSE
IsCached(dir, files, fnames) ==
    dir /\ \A i \in 1..Len(fnames) : Exists(files[fnames[i]])

\* urlretrieve(url, fname, _reporthook) ending as out.
Urlretrieve(files, f, out) ==
    [files EXCEPT ![f] = CASE out = "ok" -> "full"
                           [] out = "cut" -> "partial"
                           [] OTHER -> @]

\* for fname in fnames: urlretrieve(...), the first failure propagating.
\* outs[i] is how the download of fnames[i] ends if it is reached.
RECURSIVE RetrieveAll(_, _, _, _)
RetrieveAll(files, count, fnames, outs) ==
    IF fnames = <<>>
    THEN [fs |-> files, dl |-> count, ok |-> TRUE]
    ELSE LET f == Head(fnames)
             files2 == Urlretrieve(files, f, Head(outs))
             count2 == [count EXCEPT ![f] = @ + 1]
         IN  IF Head(outs) = "ok"
             THEN RetrieveAll(files2, count2, Tail(fnames), Tail(outs))
             ELSE [fs |-> files2, dl |-> count2, ok |-> FALSE]

\* if answer.lower() != 'y': raise RuntimeError
ConsentAlways(a) == TRUE
Consent(a) == Lower(a) = "y"

\* How parsing the files a loader reads can end: a complete file parses, a
\* partial one parses or fails according to where it was cut.
ParseResults(files, fnames) ==
    IF \E i \in 1..Len(fnames) : files[fnames[i]] = "partial"
    THEN {"returned", "DataError"}
    ELSE {"returned"}

CacheInit ==
    /\ data_home = FALSE
    /\ fs = [f \in Files |-> "absent"]
    /\ loader = "none"
    /\ pre = [f \in Files |-> "absent"]
    /\ dl = NoDownloads
    /\ accept = FALSE
    /\ answer = ""
    /\ prompted = FALSE
    /\ reads = {}
    /\ result = "none"

\* fetch_tikhonov_data(dpath)
FetchTikhonovData ==
    \E outs \in [1..Len(TikhonovFiles) -> Outcomes] :
        LET r == IF IsCached(GetDataHome(data_home), fs, TikhonovFiles)
                 THEN [fs |-> fs, dl |-> NoDownloads, ok |-> TRUE]
                 ELSE RetrieveAll(fs, NoDownloads, TikhonovFiles, outs)
        IN  /\ data_home' = GetDataHome(data_home)
            /\ loader' = "tikhonov"
            /\ pre' = fs
            /\ fs' = r.fs
            /\ dl' = r.dl
            /\ reads' = {}
            /\ result' = IF r.ok THEN "returned" ELSE "TransportError"
            /\ accept' = FALSE
            /\ answer' = ""
            /\ prompted' = FALSE
            /\ UNCHANGED <<encVars, lassoVars, cleanVars>>

\* fetch_community_crime_data(dpath), the table it returns being the
\* subject of CleanSpec.
FetchCommunityCrimeData ==
    \E outs \in [1..Len(CrimeFiles) -> Outcomes] :
        LET r == IF IsCached(GetDataHome(data_home), fs, CrimeFiles)
                 THEN [fs |-> fs, dl |-> NoDownloads, ok |-> TRUE]
                 ELSE RetrieveAll(fs, NoDownloads, CrimeFiles, outs)
        IN  /\ data_home' = GetDataHome(data_home)
            /\ loader' = "crime"
            /\ pre' = fs
            /\ fs' = r.fs
            /\ dl' = r.dl
            /\ IF r.ok
               THEN /\ reads' = Range(CrimeFiles)
                    /\ result' \in ParseResults(r.fs, CrimeFiles)
               ELSE /\ reads' = {}
                    /\ result' = "TransportError"
            /\ accept' = FALSE
            /\ answer' = ""
            /\ prompted' = FALSE
            /\ UNCHANGED <<encVars, lassoVars, cleanVars>>

\* fetch_rgc_spike_trains(dpath, accept_rgcs_license)
FetchRgcSpikeTrains ==
    \E flag \in BOOLEAN, typed \in Answers,
       outs \in [1..Len(RgcFiles) -> Outcomes] :
        /\ data_home' = GetDataHome(data_home)
        /\ loader' = "rgc"
        /\ pre' = fs
        /\ accept' = flag
        /\ reads' = {}
        /\ UNCHANGED <<encVars, lassoVars, cleanVars>>
        /\ IF IsCached(GetDataHome(data_home), fs, RgcFiles)
           THEN /\ result' = "returned"
                /\ answer' = ""
                /\ prompted' = FALSE
                /\ dl' = NoDownloads
                /\ UNCHANGED fs
           ELSE /\ answer' = IF flag THEN "y" ELSE typed
                /\ prompted' = ~flag
                /\ IF ~Consent(answer')
                   THEN /\ result' = "RuntimeError"
                        /\ dl' = NoDownloads
                        /\ UNCHANGED fs
                   ELSE LET r == RetrieveAll(fs, NoDownloads, RgcFiles, outs)
                        IN  /\ fs' = r.fs
                            /\ dl' = r.dl
                            /\ result' = IF r.ok THEN "returned"
                                         ELSE "TransportError"

\* fetch_group_lasso_data(dpath) up to the opening of the two files, what
\* it makes of their lines being the subject of LassoSpec.
FetchGroupLassoData ==
    \E outs \in [1..Len(LassoFiles) -> Outcomes] :
        LET r == IF IsCached(GetDataHome(data_home), fs, LassoFiles)
                 THEN [fs |-> fs, dl |-> NoDownloads, ok |-> TRUE]
                 ELSE RetrieveAll(fs, NoDownloads, LassoFiles, outs)
        IN  /\ data_home' = GetDataHome(data_home)
            /\ loader' = "lasso"
            /\ pre' = fs
            /\ fs' = r.fs
            /\ dl' = r.dl
            /\ IF r.ok
               THEN /\ reads' = Range(LassoFiles)
                    /\ result' \in ParseResults(r.fs, LassoFiles)
               ELSE /\ reads' = {}
                    /\ result' = "TransportError"
            /\ accept' = FALSE
            /\ answer' = ""
            /\ prompted' = FALSE
            /\ UNCHANGED <<encVars, lassoVars, cleanVars>>

CacheNext ==
    \/ FetchTikhonovData
    \/ FetchCommunityCrimeData
    \/ FetchRgcSpikeTrains
    \/ FetchGroupLassoData

-----------------------------------------------------------------------------
(* The feature encoder of fetch_group_lasso_data.                          *)

\* The longest sequence encoded, beside the samples of the data's length.
MaxSeqLen == 3

\* seqlength=7, the length of the sequences of the data set.
DefaultSeqLength == 7

DefaultAlphabet == <<"A", "T", "G", "C">>
DefaultInteractions == <<1, 2, 3>>

\* What a line of the data can hold: the alphabet and the unknown base N.
Symbols == Range(DefaultAlphabet) \cup {"N"}

Alphabets == {DefaultAlphabet, <<"A", "T">>}
InteractionLists == {DefaultInteractions, <<1, 2>>, <<2, 3>>, <<1>>, <<2>>, <<3>>}

RECURSIVE SeqsOfLen(_, _)
SeqsOfLen(S, n) ==
    IF n = 0 THEN {<<>>}
    ELSE {<<x>> \o t : x \in S, t \in SeqsOfLen(S, n - 1)}

SampleSeqs == {<<"A", "T", "G", "C", "A", "T", "G">>,
               <<"A", "A", "A", "A", "A", "A", "A">>}

InputSeqs == UNION {SeqsOfLen(Symbols, n) : n \in 0..MaxSeqLen}

\* scipy.special.comb(N, k): the number of k-subsets of N things.
RECURSIVE Comb(_, _)
Comb(N, k) ==
    IF k = 0 THEN 1
    ELSE IF k > N THEN 0
    ELSE Comb(N - 1, k - 1) + Comb(N - 1, k)

\* scipy.special.comb(N, k, repetition=True) == comb(N + k - 1, k)
CombRepetition(N, k) == Comb(N + k - 1, k)

\* [set(p) for p in s]
SetsOf(s) == [i \in 1..Len(s) |-> Range(s[i])]

\* list(itertools.combinations(s, k)): the k-tuples of elements at
\* increasing positions, in lexicographic order of the positions.
RECURSIVE Combinations(_, _)
Combinations(s, k) ==
    IF k = 0 THEN <<<<>>>>
    ELSE IF Len(s) < k THEN <<>>
    ELSE LET rest == Combinations(Tail(s), k - 1)
         IN  [i \in 1..Len(rest) |-> <<Head(s)>> \o rest[i]]
               \o Combinations(Tail(s), k)

\* list(itertools.combinations_with_replacement(s, k)): the k-tuples of
\* elements at non-decreasing positions, in lexicographic order.
RECURSIVE CombinationsWithReplacement(_, _)
CombinationsWithReplacement(s, k) ==
    IF k = 0 THEN <<<<>>>>
    ELSE IF s = <<>> THEN <<>>
    ELSE LET rest == CombinationsWithReplacement(s, k - 1)
         IN  [i \in 1..Len(rest) |-> <<Head(s)>> \o rest[i]]
               \o CombinationsWithReplacement(Tail(s), k)

\* find_interaction_index(seq, subseq, alphabet, all_possible_len_n_interactions)
\* with subseq a set, as create_feature_vector_for_sequence passes it: n is
\* the number of distinct symbols of subseq. None stands for the default of
\* the last parameter; -1 stands for the ValueError of list.index.
None == <<{"None"}>>
FindInteractionIndex(sq, subseq, alpha, all_possible) ==
    LET n == Cardinality(subseq)
        alphabet_interactions == SetsOf(CombinationsWithReplacement(alpha, n))
        num_interactions == Len(alphabet_interactions)
        all_possible_len_n_interactions ==
            IF all_possible = None
            THEN SetsOf(CombinationsWithReplacement(sq, n))
            ELSE all_possible
        group_position == ListIndex(all_possible_len_n_interactions, subseq)
        group_index == num_interactions * group_position
        value_index == ListIndex(alphabet_interactions, subseq)
    IN  IF group_position = -1 \/ value_index = -1
        THEN -1
        ELSE group_index + value_index

\* The width of the columns of one interaction order:
\* comb(len(seq), inter) * comb(len(alphabet), inter, repetition=True)
OrderWidth(L, A, inter) == Comb(L, inter) * CombRepetition(A, inter)

\* feature_vector_length of create_feature_vector_for_sequence
FeatureVectorLengthNoBias(sq, alpha, inters) ==
    SumSeq([i \in 1..Len(inters) |-> OrderWidth(Len(sq), Len(alpha), inters[i])])
FeatureVectorLength(sq, alpha, inters) ==
    SumSeq([i \in 1..Len(inters) |-> OrderWidth(Len(sq), Len(alpha), inters[i])])
      + 1

\* cur_interactions of create_feature_vector_for_sequence
CurInteractions(sq, inter) == SetsOf(Combinations(sq, inter))

\* interaction_idxs of create_feature_vector_for_sequence, an entry 0
\* standing for a ValueError raised by find_interaction_index.
InteractionIdxsNoBias(sq, alpha, inter) ==
    LET cur_interactions == CurInteractions(sq, inter)
    IN  [i \in 1..Len(cur_interactions) |->
            FindInteractionIndex(sq, cur_interactions[i], alpha, cur_interactions)]
InteractionIdxs(sq, alpha, inter) ==
    LET cur_interactions == CurInteractions(sq, inter)
    IN  [i \in 1..Len(cur_interactions) |->
            FindInteractionIndex(sq, cur_interactions[i], alpha, cur_interactions)
              + 1]

\* feature_vector[interaction_idxs] = 1.0
SetColumns(vec, interaction_idxs) ==
    [c \in DOMAIN vec |-> IF c \in Range(interaction_idxs) THEN 1 ELSE vec[c]]

\* The loops of create_group_indicies_list over x1 and x2, from the list and
\* the group_count reached so far: n_interactions runs of n_alphabet_combos
\* entries, group_count advancing after each run.
RECURSIVE GroupRunsStuck(_, _, _, _)
GroupRunsStuck(groups, group_count, n_interactions, n_alphabet_combos) ==
    IF n_interactions = 0
    THEN [index_groups |-> groups, group_count |-> group_count]
    ELSE GroupRunsStuck(groups \o [x2 \in 1..n_alphabet_combos |-> group_count],
                        group_count, n_interactions - 1, n_alphabet_combos)
RECURSIVE GroupRuns(_, _, _, _)
GroupRuns(groups, group_count, n_interactions, n_alphabet_combos) ==
    IF n_interactions = 0
    THEN [index_groups |-> groups, group_count |-> group_count]
    ELSE GroupRuns(groups \o [x2 \in 1..n_alphabet_combos |-> group_count],
                   group_count + 1, n_interactions - 1, n_alphabet_combos)

\* The loop of create_group_indicies_list over interactions.
RECURSIVE GroupLoop(_, _, _, _, _)
GroupLoop(groups, group_count, seqlength, alphabet_length, inters) ==
    IF inters = <<>> THEN groups
    ELSE LET n_interactions == Comb(seqlength, Head(inters))
             n_alphabet_combos == CombRepetition(alphabet_length, Head(inters))
             r == GroupRuns(groups, group_count, n_interactions,
                            n_alphabet_combos)
         IN  GroupLoop(r.index_groups, r.group_count, seqlength,
                       alphabet_length, Tail(inters))

\* create_group_indicies_list(seqlength, alphabet, interactions, include_extra)
CreateGroupIndiciesList(seqlength, alpha, inters, include_extra) ==
    GroupLoop(IF include_extra THEN <<0>> ELSE <<>>, 1, seqlength, Len(alpha),
              inters)

NoVector == [c \in {} |-> 0]
VecLen(v) == Cardinality(DOMAIN v)

NoGroupArgs == [seqlength |-> 0, alphabet |-> <<>>, interactions |-> <<>>,
                include_extra |-> TRUE]

\* The encoder at rest, as the other specifications leave it.
EncIdle ==
    /\ seq = <<>>
    /\ alphabet = DefaultAlphabet
    /\ interactions = DefaultInteractions
    /\ enc_pc = "idle"
    /\ inter_i = 1
    /\ feature_vector = NoVector
    /\ idxs = <<>>
    /\ grp_args = NoGroupArgs
    /\ index_groups = <<>>

\* A call of create_feature_vector_for_sequence about to start: a short
\* sequence with any alphabet and interactions, or a sample of the data's
\* length with the defaults.
EncInit ==
    /\ \/ /\ seq \in InputSeqs
          /\ alphabet \in Alphabets
          /\ interactions \in InteractionLists
       \/ /\ seq \in SampleSeqs
          /\ alphabet = DefaultAlphabet
          /\ interactions = DefaultInteractions
    /\ enc_pc = "call"
    /\ inter_i = 1
    /\ feature_vector = NoVector
    /\ idxs = <<>>
    /\ grp_args = NoGroupArgs
    /\ index_groups = <<>>

\* create_feature_vector_for_sequence(seq, alphabet, interactions) up to its
\* loop: the vector of zeros with the bias set.
EncodeStart ==
    /\ enc_pc = "call"
    /\ feature_vector' =
           [c \in 0..(FeatureVectorLength(seq, alphabet, interactions) - 1) |->
               IF c = 0 THEN 1 ELSE 0]
    /\ enc_pc' = "loop"
    /\ inter_i' = 1
    /\ idxs' = <<>>
    /\ UNCHANGED <<seq, alphabet, interactions, grp_args, index_groups>>
    /\ UNCHANGED <<cacheVars, lassoVars, cleanVars>>

\* One turn of the loop over interactions.
EncodeOrder ==
    /\ enc_pc = "loop"
    /\ inter_i <= Len(interactions)
    /\ LET interaction_idxs ==
               InteractionIdxs(seq, alphabet, interactions[inter_i])
       IN  /\ idxs' = Append(idxs, interaction_idxs)
           /\ IF 0 \in Range(interaction_idxs)
              THEN /\ enc_pc' = "ValueError"
                   /\ UNCHANGED <<feature_vector, inter_i>>
              ELSE IF \E i \in 1..Len(interaction_idxs) :
                         interaction_idxs[i] >= VecLen(feature_vector)
              THEN /\ enc_pc' = "IndexError"
                   /\ UNCHANGED <<feature_vector, inter_i>>
              ELSE /\ feature_vector' = SetColumns(feature_vector, interaction_idxs)
                   /\ inter_i' = inter_i + 1
                   /\ UNCHANGED enc_pc
    /\ UNCHANGED <<seq, alphabet, interactions, grp_args, index_groups>>
    /\ UNCHANGED <<cacheVars, lassoVars, cleanVars>>

\* return feature_vector
EncodeReturn ==
    /\ enc_pc = "loop"
    /\ inter_i > Len(interactions)
    /\ enc_pc' = "done"
    /\ UNCHANGED <<seq, alphabet, interactions, inter_i, feature_vector, idxs,
                   grp_args, index_groups>>
    /\ UNCHANGED <<cacheVars, lassoVars, cleanVars>>

\* create_group_indicies_list for the columns of the vector just built: the
\* same sequence length, alphabet and interactions, include_extra left at
\* its default as the loader leaves it.
CallCreateGroupIndiciesList ==
    /\ enc_pc = "done"
    /\ grp_args' = [seqlength |-> Len(seq), alphabet |-> alphabet,
                    interactions |-> interactions, include_extra |-> TRUE]
    /\ index_groups' =
           CreateGroupIndiciesList(Len(seq), alphabet, interactions, TRUE)
    /\ enc_pc' = "grouped"
    /\ UNCHANGED <<seq, alphabet, interactions, inter_i, feature_vector, idxs>>
    /\ UNCHANGED <<cacheVars, lassoVars, cleanVars>>

EncNext ==
    \/ EncodeStart
    \/ EncodeOrder
    \/ EncodeReturn
    \/ CallCreateGroupIndiciesList

-----------------------------------------------------------------------------
(* create_feature_vector_for_sequence as one function, for the loader.     *)

RECURSIVE EncodeLoop(_, _, _, _)
EncodeLoop(vec, sq, alpha, inters) ==
    IF inters = <<>> THEN [ok |-> TRUE, vector |-> vec]
    ELSE LET interaction_idxs == InteractionIdxs(sq, alpha, Head(inters))
         IN  IF \/ 0 \in Range(interaction_idxs)
                \/ \E i \in 1..Len(interaction_idxs) :
                       interaction_idxs[i] >= VecLen(vec)
             THEN [ok |-> FALSE, vector |-> vec]
             ELSE EncodeLoop(SetColumns(vec, interaction_idxs), sq, alpha,
                             Tail(inters))

CreateFeatureVectorForSequence(sq, alpha, inters) ==
    EncodeLoop([c \in 0..(FeatureVectorLength(sq, alpha, inters) - 1) |->
                   IF c = 0 THEN 1 ELSE 0],
               sq, alpha, inters)

-----------------------------------------------------------------------------
(* fetch_group_lasso_data from the opening of the two files on.            *)

\* The longest file read.
MaxLines == 3

\* Stands for the 8000 of "idx < 2 * 8000": the number of line pairs of the
\* positive file that are looked at.
PosPairs == 1

\* The lines a file can hold, as lists of characters: a header line and two
\* sequence lines.
HeaderLine == <<">", "\n">>
LineKinds == {HeaderLine, <<"a", "t", "\n">>, <<"G", "C", "\n">>}

RECURSIVE FilesUpTo(_)
FilesUpTo(n) ==
    IF n = 0 THEN {<<>>}
    ELSE FilesUpTo(n - 1)
           \cup {Append(f, l) : f \in {g \in FilesUpTo(n - 1) : Len(g) = n - 1},
                                l \in LineKinds}

Whitespace == {" ", "\n", "\t"}

\* str.strip
RECURSIVE StripLeft(_)
StripLeft(line) ==
    IF line # <<>> /\ Head(line) \in Whitespace THEN StripLeft(Tail(line))
    ELSE line
RECURSIVE StripRight(_)
StripRight(line) ==
    IF line # <<>> /\ line[Len(line)] \in Whitespace
    THEN StripRight(SubSeq(line, 1, Len(line) - 1))
    ELSE line
Strip(line) == StripRight(StripLeft(line))

\* str.upper
UpperChar(ch) ==
    CASE ch = "a" -> "A"
      [] ch = "t" -> "T"
      [] ch = "g" -> "G"
      [] ch = "c" -> "C"
      [] OTHER -> ch
Upper(line) == [i \in 1..Len(line) |-> UpperChar(line[i])]

\* ">" in line
IsHeader(line) == ">" \in Range(line)

\* [str(line.strip().upper()) for idx, line in enumerate(fp.readlines())
\*  if ">" not in line and idx < limit]
RECURSIVE KeptFrom(_, _, _)
KeptFrom(lines, idx, limit) ==
    IF lines = <<>> THEN <<>>
    ELSE (IF ~IsHeader(Head(lines)) /\ idx < limit
          THEN <<Upper(Strip(Head(lines)))>> ELSE <<>>)
           \o KeptFrom(Tail(lines), idx + 1, limit)

\* 2 * 8000
PositiveLimit == 2 * PosPairs

\* 2 * len(positive_sequences)
NegativeLimitUndoubled(n) == n
NegativeLimit(n) == 2 * n

\* np.vstack((positive_vector_matrix, negative_vector_matrix)): the rows of
\* both, and one empty row for each matrix that has no row.
Vstack(a, b) ==
    (IF a = <<>> THEN <<NoVector>> ELSE a) \o (IF b = <<>> THEN <<NoVector>> ELSE b)

\* df.loc[lo:hi, "Label"] = v on a frame whose rows are labelled 0..nrows-1:
\* the slice takes both ends.
LocAssign(col, lo, hi, v) ==
    [r \in DOMAIN col |-> IF r >= lo /\ r <= hi THEN v ELSE col[r]]

\* df.loc[0:len(positive_vector_matrix), "Label"] = 1.0
\* df.loc[len(positive_vector_matrix):, "Label"] = 0.0
AssignLabelsSwapped(nrows, npos) ==
    LocAssign(LocAssign([r \in 0..(nrows - 1) |-> "NaN"], npos, nrows - 1, "0.0"),
              0, npos, "1.0")
AssignLabels(nrows, npos) ==
    LocAssign(LocAssign([r \in 0..(nrows - 1) |-> "NaN"], 0, npos, "1.0"),
              npos, nrows - 1, "0.0")

NoLassoOut == [X |-> <<>>, y |-> <<>>, group |-> <<>>]

LassoInit ==
    /\ pos_file \in FilesUpTo(MaxLines)
    /\ neg_file \in FilesUpTo(MaxLines)
    /\ lasso_pc = "read_pos"
    /\ positive_sequences = <<>>
    /\ negative_sequences = <<>>
    /\ matrix = <<>>
    /\ label = <<>>
    /\ lasso_out = NoLassoOut

\* with open(pos_file) as posfp: positive_sequences = [...]
ReadPositive ==
    /\ lasso_pc = "read_pos"
    /\ positive_sequences' = KeptFrom(pos_file, 0, PositiveLimit)
    /\ lasso_pc' = "read_neg"
    /\ UNCHANGED <<pos_file, neg_file, negative_sequences, matrix, label,
                   lasso_out>>
    /\ UNCHANGED <<cacheVars, encVars, cleanVars>>

\* with open(neg_file) as negfp: negative_sequences = [...]
ReadNegative ==
    /\ lasso_pc = "read_neg"
    /\ negative_sequences' =
           KeptFrom(neg_file, 0, NegativeLimit(Len(positive_sequences)))
    /\ lasso_pc' = "assert"
    /\ UNCHANGED <<pos_file, neg_file, positive_sequences, matrix, label,
                   lasso_out>>
    /\ UNCHANGED <<cacheVars, encVars, cleanVars>>

\* assert len(positive_sequences) == len(negative_sequences)
AssertSameLength ==
    /\ lasso_pc = "assert"
    /\ lasso_pc' = IF Len(positive_sequences) = Len(negative_sequences)
                   THEN "encode" ELSE "AssertionError"
    /\ UNCHANGED <<pos_file, neg_file, positive_sequences, negative_sequences,
                   matrix, label, lasso_out>>
    /\ UNCHANGED <<cacheVars, encVars, cleanVars>>

\* positive_vector_matrix, negative_vector_matrix and the frame of their rows
BuildFrame ==
    /\ lasso_pc = "encode"
    /\ LET enc(ss) == [i \in 1..Len(ss) |->
                          CreateFeatureVectorForSequence(
                              ss[i], DefaultAlphabet, DefaultInteractions)]
           p == enc(positive_sequences)
           n == enc(negative_sequences)
       IN  IF (\A i \in 1..Len(p) : p[i].ok) /\ (\A i \in 1..Len(n) : n[i].ok)
           THEN /\ matrix' = Vstack([i \in 1..Len(p) |-> p[i].vector],
                                    [i \in 1..Len(n) |-> n[i].vector])
                /\ lasso_pc' = "label"
           ELSE /\ matrix' = <<>>
                /\ lasso_pc' = "ValueError"
    /\ UNCHANGED <<pos_file, neg_file, positive_sequences, negative_sequences,
                   label, lasso_out>>
    /\ UNCHANGED <<cacheVars, encVars, cleanVars>>

\* The two assignments to the Label column.
LabelRows ==
    /\ lasso_pc = "label"
    /\ label' = AssignLabels(Len(matrix), Len(positive_sequences))
    /\ lasso_pc' = "return"
    /\ UNCHANGED <<pos_file, neg_file, positive_sequences, negative_sequences,
                   matrix, lasso_out>>
    /\ UNCHANGED <<cacheVars, encVars, cleanVars>>

\* X, y, group and the return
LassoReturn ==
    /\ lasso_pc = "return"
    /\ lasso_out' =
           [X |-> matrix, y |-> label,
            group |-> CreateGroupIndiciesList(DefaultSeqLength, DefaultAlphabet,
                                              DefaultInteractions, TRUE)]
    /\ lasso_pc' = "returned"
    /\ UNCHANGED <<pos_file, neg_file, positive_sequences, negative_sequences,
                   matrix, label>>
    /\ UNCHANGED <<cacheVars, encVars, cleanVars>>

LassoNext ==
    \/ ReadPositive
    \/ ReadNegative
    \/ AssertSameLength
    \/ BuildFrame
    \/ LabelRows
    \/ LassoReturn

-----------------------------------------------------------------------------
(* fetch_community_crime_data from the reading of the file on.             *)

\* The largest table read.
MaxRows == 2
MaxCols == 3

\* Stand for the 3 and the 102 of range(3, 102) and for the 127 of df[127]:
\* the positions of the feature columns among the columns that remain, and
\* the label of the target column.
FeatureStart == 0
FeatureStop == 1
TargetColumn == 2

\* What a cell of the file can hold: the missing-value marker or a number.
Cells == {"?", "0.5"}

Tables ==
    UNION {[1..r -> [1..c -> Cells]] : r \in 1..MaxRows, c \in 1..MaxCols}

\* pd.read_csv(path, header=None): rows and columns labelled from 0.
ReadCsv(table) ==
    [index |-> [i \in 1..Len(table) |-> i - 1],
     columns |-> [j \in 1..Len(table[1]) |-> j - 1],
     rows |-> table]

\* df.replace('?', np.nan, inplace=True)
ReplaceNothing(frame) == frame
Replace(frame) ==
    [frame EXCEPT !.rows =
        [i \in 1..Len(frame.rows) |->
            [j \in 1..Len(frame.rows[i]) |->
                IF frame.rows[i][j] = "?" THEN "NaN" ELSE frame.rows[i][j]]]]

\* The elements of s at the positions of keep, in order.
RECURSIVE Select(_, _, _)
Select(s, keep, j) ==
    IF j > Len(s) THEN <<>>
    ELSE (IF j \in keep THEN <<s[j]>> ELSE <<>>) \o Select(s, keep, j + 1)

\* df.dropna(inplace=True, axis=1): the columns holding a null go.
DropNaColumns(frame) ==
    LET keep == {j \in 1..Len(frame.columns) :
                    \A i \in 1..Len(frame.rows) : frame.rows[i][j] # "NaN"}
    IN  [index |-> frame.index,
         columns |-> Select(frame.columns, keep, 1),
         rows |-> [i \in 1..Len(frame.rows) |-> Select(frame.rows[i], keep, 1)]]

\* df.dropna(inplace=True, axis=0): the rows holding a null go.
DropNaRows(frame) ==
    LET keep == {i \in 1..Len(frame.rows) :
                    \A j \in 1..Len(frame.rows[i]) : frame.rows[i][j] # "NaN"}
    IN  [index |-> Select(frame.index, keep, 1),
         columns |-> frame.columns,
         rows |-> Select(frame.rows, keep, 1)]

\* df.reset_index(inplace=True, drop=True)
ResetIndex(frame) ==
    [frame EXCEPT !.index = [i \in 1..Len(frame.rows) |-> i - 1]]

NoFrame == [index |-> <<>>, columns |-> <<>>, rows |-> <<>>]
NoCrimeOut == [X |-> <<>>, y |-> <<>>]

CleanInit ==
    /\ csv \in Tables
    /\ df = NoFrame
    /\ clean_pc = "read"
    /\ crime_out = NoCrimeOut

\* df = pd.read_csv(op.join(dpath, file_name), header=None)
CrimeRead ==
    /\ clean_pc = "read"
    /\ df' = ReadCsv(csv)
    /\ clean_pc' = "replace"
    /\ UNCHANGED <<csv, crime_out>>
    /\ UNCHANGED <<cacheVars, encVars, lassoVars>>

CrimeReplace ==
    /\ clean_pc = "replace"
    /\ df' = Replace(df)
    /\ clean_pc' = "dropna_columns"
    /\ UNCHANGED <<csv, crime_out>>
    /\ UNCHANGED <<cacheVars, encVars, lassoVars>>

CrimeDropColumns ==
    /\ clean_pc = "dropna_columns"
    /\ df' = DropNaColumns(df)
    /\ clean_pc' = "dropna_rows"
    /\ UNCHANGED <<csv, crime_out>>
    /\ UNCHANGED <<cacheVars, encVars, lassoVars>>

CrimeDropRows ==
    /\ clean_pc = "dropna_rows"
    /\ df' = DropNaRows(df)
    /\ clean_pc' = "reset_index"
    /\ UNCHANGED <<csv, crime_out>>
    /\ UNCHANGED <<cacheVars, encVars, lassoVars>>

CrimeResetIndex ==
    /\ clean_pc = "reset_index"
    /\ df' = ResetIndex(df)
    /\ clean_pc' = "extract"
    /\ UNCHANGED <<csv, crime_out>>
    /\ UNCHANGED <<cacheVars, encVars, lassoVars>>

\* X = np.array(df[df.keys()[range(3, 102)]]); y = np.array(df[127]); return
CrimeExtract ==
    /\ clean_pc = "extract"
    /\ IF Len(df.columns) < FeatureStop
       THEN /\ clean_pc' = "IndexError"
            /\ UNCHANGED crime_out
       ELSE IF TargetColumn \notin Range(df.columns)
       THEN /\ clean_pc' = "KeyError"
            /\ UNCHANGED crime_out
       ELSE /\ clean_pc' = "returned"
            /\ crime_out' =
                  [X |-> [i \in 1..Len(df.rows) |->
                            SubSeq(df.rows[i], FeatureStart + 1, FeatureStop)],
                   y |-> [i \in 1..Len(df.rows) |->
                            df.rows[i][ListIndex(df.columns, TargetColumn) + 1]]]
    /\ UNCHANGED <<csv, df>>
    /\ UNCHANGED <<cacheVars, encVars, lassoVars>>

CleanNext ==
    \/ CrimeRead
    \/ CrimeReplace
    \/ CrimeDropColumns
    \/ CrimeDropRows
    \/ CrimeResetIndex
    \/ CrimeExtract

-----------------------------------------------------------------------------
\* The other parts of the program at rest.
CacheIdle == CacheInit

LassoIdle ==
    /\ pos_file = <<>>
    /\ neg_file = <<>>
    /\ lasso_pc = "idle"
    /\ positive_sequences = <<>>
    /\ negative_sequences = <<>>
    /\ matrix = <<>>
    /\ label = <<>>
    /\ lasso_out = NoLassoOut

CleanIdle ==
    /\ csv = <<>>
    /\ df = NoFrame
    /\ clean_pc = "idle"
    /\ crime_out = NoCrimeOut

Init == CacheInit /\ EncIdle /\ LassoIdle /\ CleanIdle
Next == CacheNext
Spec == Init /\ [][Next]_vars

EncoderInit == CacheIdle /\ EncInit /\ LassoIdle /\ CleanIdle
EncoderNext == EncNext
EncoderSpec == EncoderInit /\ [][EncoderNext]_vars

LassoSpecInit == CacheIdle /\ EncIdle /\ LassoInit /\ CleanIdle
LassoSpec == LassoSpecInit /\ [][LassoNext]_vars

CleanSpecInit == CacheIdle /\ EncIdle /\ LassoIdle /\ CleanInit
CleanSpec == CleanSpecInit /\ [][CleanNext]_vars

-----------------------------------------------------------------------------
(* Properties of the cache and the loaders' downloads, checked under Spec. *)

\* The files the loader called last requires.
Required ==
    CASE loader = "tikhonov" -> Range(TikhonovFiles)
      [] loader = "crime" -> Range(CrimeFiles)
      [] loader = "rgc" -> Range(RgcFiles)
      [] loader = "lasso" -> Range(LassoFiles)
      [] OTHER -> {}

AllPresentAtCall == \A f \in Required : pre[f] # "absent"

C6_NoDownloadWithoutConsent ==
    (loader = "rgc" /\ pre["data_RGCs.json"] = "absent") =>
        /\ (~accept /\ answer \notin {"y", "Y"}) =>
              /\ result = "RuntimeError"
              /\ dl = NoDownloads
              /\ fs = pre
        /\ accept =>
              /\ ~prompted
              /\ dl["data_RGCs.json"] = 1
              /\ result # "RuntimeError"
        /\ ~accept => prompted
        /\ dl["data_RGCs.json"] > 0 => (accept \/ answer \in {"y", "Y"})

C6_Witness ==
    /\ loader = "rgc"
    /\ pre["data_RGCs.json"] = "absent"
    /\ ~accept
    /\ prompted
    /\ answer = "YES"
    /\ result = "RuntimeError"
    /\ dl = NoDownloads
    /\ fs["data_RGCs.json"] = "absent"

\* C8: a call that finds a partial file left by a failed download, every
\* other required file being present, takes it for cached: it downloads
\* nothing, raises no transport error, leaves the file as it is and goes on
\* to use it (the loaders that parse their files open it).
C8_PartialFileIsCacheHit ==
    (AllPresentAtCall /\ \E f \in Required : pre[f] = "partial") =>
        /\ dl = NoDownloads
        /\ fs = pre
        /\ result \notin {"TransportError", "RuntimeError"}
        /\ loader \in {"crime", "lasso"} => reads = Required
        /\ loader \in {"tikhonov", "rgc"} => result = "returned"

C8_Witness ==
    /\ loader = "lasso"
    /\ pre["pos"] = "full"
    /\ pre["neg"] = "partial"
    /\ dl = NoDownloads
    /\ fs["neg"] = "partial"
    /\ "neg" \in reads

-----------------------------------------------------------------------------
(* Properties of the feature encoder, checked under EncoderSpec.           *)

\* The binomial coefficient by factorials, written apart from the model's
\* Comb so that the properties below do not restate the model.
RECURSIVE Factorial(_)
Factorial(n) == IF n <= 0 THEN 1 ELSE n * Factorial(n - 1)
Binomial(n, k) ==
    IF k < 0 \/ k > n THEN 0
    ELSE Factorial(n) \div (Factorial(k) * Factorial(n - k))
Multichoose(n, k) == Binomial(n + k - 1, k)

\* The width of the block of columns of the j-th configured order, and the
\* first column of that block.
BlockWidth(j) ==
    Binomial(Len(seq), interactions[j])
      * Multichoose(Len(alphabet), interactions[j])
RECURSIVE BlockStart(_)
BlockStart(j) == IF j = 1 THEN 1 ELSE BlockStart(j - 1) + BlockWidth(j - 1)

\* The bias column and the blocks of all configured orders.
TotalColumns == BlockStart(Len(interactions)) + BlockWidth(Len(interactions))

EncoderAllocated == enc_pc \in {"loop", "done", "grouped", "ValueError", "IndexError"}

\* C1: the feature vector has exactly 1 + the sum over the configured
\* orders k of C(L,k) * CR(|alphabet|,k) columns (939 for L = 7 with the
\* default alphabet and orders), and its column 0 holds 1.
C1_VectorLengthAndBias ==
    EncoderAllocated =>
        /\ VecLen(feature_vector) = TotalColumns
        /\ DOMAIN feature_vector = 0..(VecLen(feature_vector) - 1)
        /\ feature_vector[0] = 1
        /\ (Len(seq) = 7 /\ alphabet = DefaultAlphabet
              /\ interactions = DefaultInteractions)
             => VecLen(feature_vector) = 939

C1_Witness ==
    /\ enc_pc = "done"
    /\ Len(seq) = 7
    /\ VecLen(feature_vector) = 939
    /\ feature_vector[0] = 1

\* C2: the column set for an observed order-k interaction is 1 + the width
\* of the lower orders already emitted + the group's ordinal position * the
\* number of alphabet interactions of order k + the value's ordinal position
\* in the alphabet enumeration, so it lies in the block of columns of order
\* k and columns set for different orders never coincide.
C2_ColumnInOrderBlock ==
    \A j \in 1..Len(idxs) :
        /\ \A i \in 1..Len(idxs[j]) :
              idxs[j][i] # 0 =>
                LET cur == SetsOf(Combinations(seq, interactions[j]))
                    group == ListIndex(cur, cur[i])
                    value == ListIndex(
                        SetsOf(CombinationsWithReplacement(alphabet, interactions[j])),
                        cur[i])
                IN  /\ idxs[j][i] =
                         BlockStart(j)
                           + group * Multichoose(Len(alphabet), interactions[j])
                           + value
                    /\ idxs[j][i] >= BlockStart(j)
                    /\ idxs[j][i] < BlockStart(j) + BlockWidth(j)
        /\ \A j2 \in 1..Len(idxs) :
              j2 # j => (Range(idxs[j]) \ {0}) \cap (Range(idxs[j2]) \ {0}) = {}

\* The group id of column c >= 1 when the columns are laid out order by
\* order, each positional group taking CR(|alphabet|,k) columns.
RECURSIVE GroupsBefore(_)
GroupsBefore(j) ==
    IF j = 1 THEN 0
    ELSE GroupsBefore(j - 1) + Binomial(Len(seq), interactions[j - 1])
ExpectedGroup(c) ==
    LET j == CHOOSE m \in 1..Len(interactions) :
                 c >= BlockStart(m) /\ c < BlockStart(m) + BlockWidth(m)
    IN  1 + GroupsBefore(j)
          + ((c - BlockStart(j)) \div Multichoose(Len(alphabet), interactions[j]))

\* C3: the group list has one entry per column of the feature vector built
\* for the same sequence length, alphabet and orders; entry 0 is group 0;
\* then order by order each of the C(L,k) positional groups takes
\* CR(|alphabet|,k) consecutive entries with one id, the ids starting at 1
\* and rising by one per positional group, so the list never decreases and
\* ends at the sum over k of C(L,k).
C3_GroupListLayout ==
    enc_pc = "grouped" =>
        /\ Len(index_groups) = VecLen(feature_vector)
        /\ index_groups[1] = 0
        /\ \A c \in 1..(Len(index_groups) - 1) :
              index_groups[c + 1] = ExpectedGroup(c)
        /\ \A c \in 1..(Len(index_groups) - 1) :
              index_groups[c + 1] - index_groups[c] \in {0, 1}
        /\ index_groups[Len(index_groups)] =
              GroupsBefore(Len(interactions))
                + Binomial(Len(seq), interactions[Len(interactions)])

C3_Witness ==
    /\ enc_pc = "grouped"
    /\ Len(seq) = 7
    /\ Len(index_groups) = 939
    /\ index_groups[1] = 0
    /\ index_groups[2] = 1
    /\ index_groups[939] = 63

-----------------------------------------------------------------------------
(* Properties of the group lasso loader's body, checked under LassoSpec.   *)

\* Header lines and sequence lines alternate in the file.
Alternating(f) ==
    \A i \in 1..(Len(f) - 1) : IsHeader(f[i]) # IsHeader(f[i + 1])

SequenceLines(f) == Cardinality({i \in 1..Len(f) : ~IsHeader(f[i])})

LassoRead == lasso_pc \notin {"idle", "read_pos", "read_neg"}

\* C4: with n >= 1 sequences kept on each side, the feature matrix has 2n
\* rows and, both label assignments applied, the labels are 1.0 on exactly
\* the rows 0..n-1 and 0.0 on exactly the rows n..2n-1.
C4_LabelsSplitInHalves ==
    (lasso_pc = "returned" /\ Len(positive_sequences) >= 1) =>
        LET n == Len(positive_sequences)
        IN  /\ Len(negative_sequences) = n
            /\ Len(lasso_out.X) = 2 * n
            /\ DOMAIN lasso_out.y = 0..(2 * n - 1)
            /\ \A r \in 0..(n - 1) : lasso_out.y[r] = "1.0"
            /\ \A r \in n..(2 * n - 1) : lasso_out.y[r] = "0.0"

C4_Witness ==
    /\ lasso_pc = "returned"
    /\ Len(positive_sequences) = 2
    /\ Len(lasso_out.X) = 4
    /\ lasso_out.y[1] = "1.0"
    /\ lasso_out.y[2] = "0.0"

-----------------------------------------------------------------------------
(* Properties of the community crime cleaning, checked under CleanSpec.    *)

Missing(cell) == cell \in {"?", "NaN"}

CrimeCleaned == clean_pc \in {"extract", "returned", "IndexError", "KeyError"}

\* C9: after the cleaning the table holds no missing cell, has no more
\* columns and no more rows than the file, its rows are numbered from 0,
\* and the feature matrix returned holds no missing value.
C9_NoMissingValueLeft ==
    CrimeCleaned =>
        /\ \A i \in 1..Len(df.rows) : \A j \in 1..Len(df.rows[i]) :
              ~Missing(df.rows[i][j])
        /\ Len(df.columns) <= Len(csv[1])
        /\ Len(df.rows) <= Len(csv)
        /\ \A i \in 1..Len(df.rows) : Len(df.rows[i]) = Len(df.columns)
        /\ df.index = [i \in 1..Len(df.rows) |-> i - 1]
        /\ clean_pc = "returned" =>
              \A i \in 1..Len(crime_out.X) : \A j \in 1..Len(crime_out.X[i]) :
                  ~Missing(crime_out.X[i][j])

C9_Witness ==
    /\ clean_pc = "returned"
    /\ \E i \in 1..Len(csv) : \E j \in 1..Len(csv[i]) : csv[i][j] = "?"
    /\ Len(df.columns) < Len(csv[1])
    /\ Len(crime_out.X) = Len(csv)
    /\ Len(crime_out.X) >= 2

=============================================================================
